---- MODULE Spec2Model ----
(***************************************************************************)
(* Model of the LESS variable hint provider (src/main.js): the LESSHint    *)
(* object registered with the Brackets CodeHintManager.  The state is the  *)
(* object's fields plus the host-owned document and cursor; the actions    *)
(* are the three provider callbacks hasHints, getHints and insertHint and  *)
(* the host moving the cursor.  Strings are sequences of one-character     *)
(* strings; the document is one flat string with "\n" line separators.     *)
(* The document text is given at the start, with the text the user has     *)
(* typed already in it, and changes only when insertHint replaces a span.  *)
(***************************************************************************)
EXTENDS Integers, Sequences, FiniteSets

\* ------------------------------------------------------------------------
\* Bounds of the model
\* ------------------------------------------------------------------------

\* Number of declaration lines in the initial document.
MaxDecls == 2

\* Number of insertions into the document.
MaxInserts == 1

\* ------------------------------------------------------------------------
\* Characters
\* ------------------------------------------------------------------------

\* UTF-16 code units of the characters the model uses.
Code ==
    [c \in {"\n", " ", "!", "-", "1", "2", "3", ":", ";", "@", "A", "B", "_", "a", "b"} |->
        CASE c = "\n" -> 10 [] c = " " -> 32 [] c = "!" -> 33 [] c = "-" -> 45
          [] c = "1" -> 49 [] c = "2" -> 50 [] c = "3" -> 51
          [] c = ":" -> 58 [] c = ";" -> 59 [] c = "@" -> 64
          [] c = "A" -> 65 [] c = "B" -> 66 [] c = "_" -> 95
          [] c = "a" -> 97 [] c = "b" -> 98]

Alphabet == DOMAIN Code

\* \w of a JavaScript regular expression: [A-Za-z0-9_]
IsWord(c) ==
    LET n == Code[c]
    IN  (n >= 48 /\ n <= 57) \/ (n >= 65 /\ n <= 90) \/ n = 95 \/ (n >= 97 /\ n <= 122)

\* \s of a JavaScript regular expression, on the model's alphabet
IsSpace(c) == Code[c] \in {9, 10, 11, 12, 13, 32}

\* String.prototype.toLowerCase, one character
lowerChar(c) ==
    IF Code[c] >= 65 /\ Code[c] <= 90
    THEN CHOOSE d \in Alphabet : Code[d] = Code[c] + 32
    ELSE c

\* String.prototype.toLowerCase
toLowerCase(s) == [k \in 1..Len(s) |-> lowerChar(s[k])]

\* this.implicitChar = "@"
implicitCharSetting == "@"

\* Mutant of charsTest: the typed character is never tested
charsTestNothing(c) == TRUE

\* this.chars = /[@\w\-]/i, tested against one character
charsTest(c) == c = "@" \/ IsWord(c) \/ c = "-"

\* The absent typed character (null)
NoChar == "null"

\* ------------------------------------------------------------------------
\* Host document: positions, getRange, replaceRange
\* ------------------------------------------------------------------------

\* Number of line separators among the first off characters of text
LineOf(text, off) == Cardinality({k \in 1..off : text[k] = "\n"})

\* Offset of the first character of a line
LineStart(text, line) ==
    IF line = 0 THEN 0
    ELSE CHOOSE k \in 1..Len(text) : text[k] = "\n" /\ LineOf(text, k) = line

\* The {line, ch} position of an offset
PosOf(text, off) ==
    [line |-> LineOf(text, off), ch |-> off - LineStart(text, LineOf(text, off))]

\* Every position the cursor can take in the text
Positions(text) == {PosOf(text, off) : off \in 0..Len(text)}

\* Offset of a position, clipped to the document the way the editor clips
OffsetOf(text, pos) ==
    LET last == LineOf(text, Len(text))
    IN  IF pos.line > last THEN Len(text)
        ELSE LET start == LineStart(text, pos.line)
                 end   == IF pos.line = last THEN Len(text)
                          ELSE LineStart(text, pos.line + 1) - 1
             IN  IF start + pos.ch > end THEN end ELSE start + pos.ch

\* document.getRange(start, end)
getRange(text, start, end) ==
    SubSeq(text, OffsetOf(text, start) + 1, OffsetOf(text, end))

\* The text after document.replaceRange(str, start, end); the editor swaps
\* the two ends when they come in the wrong order.
replaceRange(text, str, start, end) ==
    LET a    == OffsetOf(text, start)
        b    == OffsetOf(text, end)
        from == IF a <= b THEN a ELSE b
        to   == IF a <= b THEN b ELSE a
    IN  SubSeq(text, 1, from) \o str \o SubSeq(text, to + 1, Len(text))

\* The cursor after replaceRange: the end of the inserted text
cursorAfterReplace(text, str, start, end) ==
    LET a    == OffsetOf(text, start)
        b    == OffsetOf(text, end)
        from == IF a <= b THEN a ELSE b
    IN  PosOf(replaceRange(text, str, start, end), from + Len(str))

\* ------------------------------------------------------------------------
\* this.regex = /@([\w\-]+)\s*:\s*([^\n;]+)/ig
\* ------------------------------------------------------------------------

\* [\w\-]
NameClass == {c \in Alphabet : IsWord(c) \/ c = "-"}

\* \s
SpaceClass == {c \in Alphabet : IsSpace(c)}

\* [^\n;]
ValueClass == Alphabet \ {"\n", ";"}

\* Last index of the longest run of Class characters starting at index s
\* (s - 1 when the run is empty): a greedy quantifier
RunEnd(text, s, Class) ==
    CHOOSE e \in (s - 1)..Len(text) :
        /\ \A k \in s..e : text[k] \in Class
        /\ (e = Len(text) \/ text[e + 1] \notin Class)

\* The match of the pattern that starts at index i, if there is one.  Both
\* name and the first \s* are maximal runs (a shorter one is followed by a
\* character of the same class, never by what the pattern needs next); the
\* second \s* gives characters back until [^\n;]+ can start.
matchAt(text, i) ==
    LET nameEnd  == RunEnd(text, i + 1, NameClass)
        colon    == RunEnd(text, nameEnd + 1, SpaceClass) + 1
        ws2End   == RunEnd(text, colon + 1, SpaceClass)
        starts   == {s \in (colon + 1)..(ws2End + 1) :
                        s <= Len(text) /\ text[s] \in ValueClass}
        valStart == CHOOSE s \in starts : \A t \in starts : t <= s
        valEnd   == RunEnd(text, valStart, ValueClass)
    IN  IF /\ text[i] = "@"
           /\ nameEnd >= i + 1
           /\ colon <= Len(text)
           /\ text[colon] = ":"
           /\ starts # {}
        THEN [found |-> TRUE, end |-> valEnd,
              name |-> SubSeq(text, i + 1, nameEnd),
              value |-> SubSeq(text, valStart, valEnd)]
        ELSE [found |-> FALSE, end |-> i, name |-> <<>>, value |-> <<>>]

\* The exec loop from index i on: the leftmost match, then on from its end
RECURSIVE execLoop(_, _)
execLoop(text, i) ==
    IF i > Len(text) THEN <<>>
    ELSE LET m == matchAt(text, i)
         IN  IF m.found
             THEN <<[name |-> m.name, value |-> m.value]>> \o execLoop(text, m.end + 1)
             ELSE execLoop(text, i + 1)

\* LESSHint.prototype.getAll: all matches, in document order
getAll(text) == execLoop(text, 1)

\* ------------------------------------------------------------------------
\* Filtering, sorting and rendering
\* ------------------------------------------------------------------------

\* String.prototype.indexOf of one character: 0-based, -1 when absent
indexOf(s, c) ==
    IF \E k \in 1..Len(s) : s[k] = c
    THEN (CHOOSE k \in 1..Len(s) : s[k] = c /\ \A j \in 1..(k - 1) : s[j] # c) - 1
    ELSE -1

\* String.prototype.substr(from), 0-based
substr(s, from) == SubSeq(s, from + 1, Len(s))

\* Mutant of filterLoop: the written text has to be the start of the name
filterLoopPrefix(hint, written) ==
    Len(written) <= Len(hint) /\ SubSeq(hint, 1, Len(written)) = written

\* Mutant of filterLoop: a written character the name does not hold is
\* passed over instead of rejecting the name
RECURSIVE filterLoopSkip(_, _)
filterLoopSkip(hint, written) ==
    IF written = <<>> THEN TRUE
    ELSE LET index == indexOf(hint, written[1])
         IN  IF index = -1 THEN filterLoopSkip(hint, Tail(written))
             ELSE filterLoopSkip(substr(hint, index + 1), Tail(written))

\* The loop of the filter callback: each written character is searched in
\* what is left of the name after the previous one
RECURSIVE filterLoop(_, _)
filterLoop(hint, written) ==
    IF written = <<>> THEN TRUE
    ELSE LET index == indexOf(hint, written[1])
         IN  IF index = -1 THEN FALSE
             ELSE filterLoop(substr(hint, index + 1), Tail(written))

\* LESSHint.prototype.filterHints
filterHints(matches, written) ==
    SelectSeq(matches, LAMBDA match : filterLoop(toLowerCase(match.name), toLowerCase(written)))

\* var1 < var2 on strings: code unit order, a proper prefix is smaller
RECURSIVE strLess(_, _)
strLess(s, t) ==
    IF t = <<>> THEN FALSE
    ELSE IF s = <<>> THEN TRUE
    ELSE IF Code[s[1]] # Code[t[1]] THEN Code[s[1]] < Code[t[1]]
    ELSE strLess(Tail(s), Tail(t))

\* Mutant of compare: equal names compare as greater
compareTieGreater(match1, match2) ==
    LET var1 == toLowerCase(match1.name)
        var2 == toLowerCase(match2.name)
    IN  IF strLess(var1, var2) THEN -1 ELSE 1

\* The comparison function handed to sort
compare(match1, match2) ==
    LET var1 == toLowerCase(match1.name)
        var2 == toLowerCase(match2.name)
    IN  IF strLess(var2, var1) THEN 1
        ELSE IF strLess(var1, var2) THEN -1
        ELSE 0

\* One insertion of a stable sort: m goes behind every element that does
\* not compare greater than it
insertSorted(sorted, m) ==
    LET k == Cardinality({j \in 1..Len(sorted) : compare(sorted[j], m) <= 0})
    IN  SubSeq(sorted, 1, k) \o <<m>> \o SubSeq(sorted, k + 1, Len(sorted))

\* Array.prototype.sort with the comparison function: a stable sort, as
\* ECMAScript requires since 2019 and as the insertion sort of older V8 does
\* for the short arrays of this model
RECURSIVE sort(_)
sort(matches) ==
    IF matches = <<>> THEN <<>>
    ELSE insertSorted(sort(SubSeq(matches, 1, Len(matches) - 1)), matches[Len(matches)])

\* The markup put around the value in a display form
SpanOpen == "<span style='color:#a0a0a0; margin-left: 10px'>"

SpanClose == "</span>"

\* The display form of one match
renderHTML(match) == match.name \o <<SpanOpen>> \o match.value \o <<SpanClose>>

\* Mutant of processHints: the display forms are made from the matches as
\* they came, the names from the sorted ones
processHintsUnsorted(matches) ==
    LET sorted == sort(matches)
    IN  [hints     |-> [k \in 1..Len(sorted) |-> sorted[k].name],
         hintsHTML |-> [k \in 1..Len(matches) |-> renderHTML(matches[k])]]

\* LESSHint.prototype.processHints: the new hints and hintsHTML
processHints(matches) ==
    LET sorted == sort(matches)
    IN  [hints     |-> [k \in 1..Len(sorted) |-> sorted[k].name],
         hintsHTML |-> [k \in 1..Len(sorted) |-> renderHTML(sorted[k])]]

\* ------------------------------------------------------------------------
\* State
\* ------------------------------------------------------------------------

VARIABLES
    doc,                \* text of the host document
    cursor,             \* editor.getCursorPos(): [line, ch]
    editor,             \* this.editor: "undefined" until hasHints stores it
    startPos,           \* this.startPos: NoPos (null) or [line, ch]
    writtenSinceStart,  \* this.writtenSinceStart
    hints,              \* this.hints
    hintsHTML,          \* this.hintsHTML
    inserts,            \* number of insertions made so far
    ret                 \* the last provider call: its arguments, its result
                        \* and the replaceRange calls it issued

vars == <<doc, cursor, editor, startPos, writtenSinceStart, hints, hintsHTML, inserts, ret>>

\* this.startPos = null
NoPos == [line |-> -1, ch |-> -1]

\* Declaration lines the initial document is put together from: a name
\* with a hyphen, names that differ only in case, a value after a blank,
\* a value ended by a semicolon or by the line
Fragments ==
    { <<"@", "a", "-", "b", ":", "1", "\n">>,
      <<"@", "B", ":", " ", "2", ";", "\n">>,
      <<"@", "b", ":", "3", "\n">> }

\* The last line of the initial document, where the user is typing
TypingLines == { <<>>, <<"@", "A", "b">> }

RECURSIVE Decls(_)
Decls(n) ==
    IF n = 0 THEN {<<>>}
    ELSE Decls(n - 1) \cup {d \o f : d \in Decls(n - 1), f \in Fragments}

\* The documents queried: declaration lines, then the line being typed
Docs == {d \o t : d \in Decls(MaxDecls), t \in TypingLines}

\* The documents hints are inserted into: two declarations out of order,
\* and one declaration written twice; the last line is still empty
SessionDocs ==
    { <<"@", "b", ":", "3", "\n", "@", "a", "-", "b", ":", "1", "\n">>,
      <<"@", "B", ":", "2", "\n", "@", "B", ":", "2", "\n">> }

\* Where the host puts the cursor: on the last line, or at the top
CursorStops(text) ==
    {PosOf(text, 0)} \cup {p \in Positions(text) : p.line = LineOf(text, Len(text))}

\* Characters the host reports as just typed (NoChar: none)
TypedChars == {NoChar, "@", "_", "!"}

\* A display form no list of this model contains
UnknownHint == <<"b", SpanOpen, "1", SpanClose>>

NoRet ==
    [op |-> "none", char |-> NoChar, hint |-> <<>>, result |-> "none",
     extracted |-> FALSE, calls |-> <<>>]

Init ==
    /\ doc \in SessionDocs
    /\ cursor \in CursorStops(doc)
    /\ inserts = 0
    /\ editor = "undefined"
    /\ startPos = NoPos
    /\ writtenSinceStart = <<>>
    /\ hints = <<>>
    /\ hintsHTML = <<>>
    /\ ret = NoRet

\* ------------------------------------------------------------------------
\* Operations
\* ------------------------------------------------------------------------

\* The host moves the cursor (the user clicks or uses the arrow keys)
MoveCursor ==
    /\ \E pos \in CursorStops(doc) : pos # cursor /\ cursor' = pos
    /\ ret' = NoRet
    /\ UNCHANGED <<doc, editor, startPos, writtenSinceStart, hints, hintsHTML, inserts>>

\* LESSHint.prototype.hasHints(editor, implicitChar)
hasHints(implicitChar) ==
    /\ editor' = "editor"
    /\ startPos' = cursor
    /\ ret' = [NoRet EXCEPT !.op = "hasHints", !.char = implicitChar,
                  !.result = IF implicitChar # NoChar /\ implicitChar = implicitCharSetting
                             THEN "true" ELSE "false"]
    /\ UNCHANGED <<doc, cursor, writtenSinceStart, hints, hintsHTML, inserts>>

\* Mutant of validPosition: the cursor has to be behind the start position
validPositionBehind(implicitChar) ==
    IF implicitChar # NoChar /\ ~charsTest(implicitChar) THEN "false"
    ELSE IF editor = "undefined" THEN "TypeError"
    ELSE IF cursor.line = startPos.line /\ cursor.ch > startPos.ch THEN "true"
    ELSE "false"

\* LESSHint.prototype.validPosition: the result, "TypeError" when
\* this.editor is still undefined at this.editor.getCursorPos()
validPosition(implicitChar) ==
    IF implicitChar # NoChar /\ ~charsTest(implicitChar) THEN "false"
    ELSE IF editor = "undefined" THEN "TypeError"
    ELSE IF cursor.line = startPos.line /\ cursor.ch >= startPos.ch THEN "true"
    ELSE "false"

\* LESSHint.prototype.getHints(implicitChar)
getHints(implicitChar) ==
    LET valid == validPosition(implicitChar)
    IN  /\ UNCHANGED <<doc, cursor, editor, startPos, inserts>>
        /\ IF valid = "true"
           THEN LET written   == getRange(doc, startPos, cursor)
                    matches   == filterHints(getAll(doc), written)
                    processed == processHints(matches)
                IN  /\ writtenSinceStart' = written
                    /\ hints' = processed.hints
                    /\ hintsHTML' = processed.hintsHTML
                    /\ ret' = [NoRet EXCEPT !.op = "getHints", !.char = implicitChar,
                                  !.result = "hints", !.extracted = TRUE]
           ELSE /\ UNCHANGED <<writtenSinceStart, hints, hintsHTML>>
                /\ ret' = [NoRet EXCEPT !.op = "getHints", !.char = implicitChar,
                              !.result = IF valid = "false" THEN "null" ELSE "TypeError"]

\* Mutant of hintAt: the display form itself is inserted
hintAtHTML(index) == hintsHTML[index + 1]

\* hint = this.hints[index]
hintAt(index) == hints[index + 1]

\* LESSHint.prototype.insertHint(hint).  With this.editor still undefined the
\* call throws before it reaches the document.  A hint that is not in
\* hintsHTML gives index -1 and this.hints[-1], undefined, which is handed
\* to replaceRange all the same; what the host makes of an undefined text is
\* its own business: it throws and leaves the text alone, or it takes the
\* text for empty.
insertHint(hint) ==
    LET index == IF \E k \in 1..Len(hintsHTML) : hintsHTML[k] = hint
                 THEN (CHOOSE k \in 1..Len(hintsHTML) :
                          hintsHTML[k] = hint /\ \A j \in 1..(k - 1) : hintsHTML[j] # hint) - 1
                 ELSE -1
    IN  /\ UNCHANGED <<editor, startPos, writtenSinceStart, hints, hintsHTML>>
        /\ IF editor = "undefined"
           THEN /\ ret' = [NoRet EXCEPT !.op = "insertHint", !.hint = hint,
                              !.result = "TypeError"]
                /\ UNCHANGED <<doc, cursor, inserts>>
           ELSE LET text == IF index = -1 THEN <<"undefined">> ELSE hintAt(index)
                    call == [text |-> text, from |-> startPos, to |-> cursor]
                IN  IF index = -1
                    THEN \/ /\ ret' = [NoRet EXCEPT !.op = "insertHint", !.hint = hint,
                                          !.result = "TypeError", !.calls = <<call>>]
                            /\ UNCHANGED <<doc, cursor, inserts>>
                         \/ /\ inserts < MaxInserts
                            /\ inserts' = inserts + 1
                            /\ ret' = [NoRet EXCEPT !.op = "insertHint", !.hint = hint,
                                          !.result = "undefined", !.calls = <<call>>]
                            /\ doc' = replaceRange(doc, <<>>, startPos, cursor)
                            /\ cursor' = cursorAfterReplace(doc, <<>>, startPos, cursor)
                    ELSE /\ inserts < MaxInserts
                         /\ inserts' = inserts + 1
                         /\ ret' = [NoRet EXCEPT !.op = "insertHint", !.hint = hint,
                                       !.result = "undefined", !.calls = <<call>>]
                         /\ doc' = replaceRange(doc, text, startPos, cursor)
                         /\ cursor' = cursorAfterReplace(doc, text, startPos, cursor)

\* The display forms the host may hand to insertHint
Selectable == {hintsHTML[k] : k \in 1..Len(hintsHTML)} \cup {UnknownHint}

Next ==
    \/ MoveCursor
    \/ \E c \in TypedChars : hasHints(c)
    \/ \E c \in TypedChars : getHints(c)
    \/ \E h \in Selectable : insertHint(h)

Spec == Init /\ [][Next]_vars

\* The queries alone, on the larger documents: the editor asks for hints
\* wherever the cursor is and nothing is inserted
QueryInit ==
    /\ doc \in Docs
    /\ cursor \in CursorStops(doc)
    /\ inserts = 0
    /\ editor = "undefined"
    /\ startPos = NoPos
    /\ writtenSinceStart = <<>>
    /\ hints = <<>>
    /\ hintsHTML = <<>>
    /\ ret = NoRet

QueryNext ==
    \/ MoveCursor
    \/ \E c \in TypedChars : hasHints(c)
    \/ \E c \in TypedChars : getHints(c)

QuerySpec == QueryInit /\ [][QueryNext]_vars

\* ------------------------------------------------------------------------
\* Vocabulary of the properties
\* ------------------------------------------------------------------------

\* The last call was a getHints that was accepted and returned the list
Accepted == ret.op = "getHints" /\ ret.result = "hints"

\* Number of times x occurs in seq
Count(seq, x) == Cardinality({k \in 1..Len(seq) : seq[k] = x})

\* Two sequences hold the same elements the same number of times
SameBag(s, t) ==
    /\ Len(s) = Len(t)
    /\ \A k \in 1..Len(s) : Count(s, s[k]) = Count(t, s[k])

\* p occurs in s in order, not necessarily contiguously
IsSubsequence(p, s) ==
    \E f \in [1..Len(p) -> 1..Len(s)] :
        /\ \A i, j \in 1..Len(p) : i < j => f[i] < f[j]
        /\ \A i \in 1..Len(p) : s[f[i]] = p[i]

\* s is made of name characters only
NameCharsOnly(s) == \A k \in 1..Len(s) : s[k] \in NameClass

\* The declarations of the text whose name has q as a case-insensitive
\* subsequence, in document order
Having(text, q) ==
    SelectSeq(getAll(text),
              LAMBDA d : IsSubsequence(toLowerCase(q), toLowerCase(d.name)))

Names(decls) == [k \in 1..Len(decls) |-> decls[k].name]

Renderings(decls) == [k \in 1..Len(decls) |-> renderHTML(decls[k])]

\* a comes before b in code unit order (a proper prefix comes first)
LexLess(a, b) ==
    \E k \in 1..Len(b) :
        /\ k <= Len(a) + 1
        /\ \A j \in 1..(k - 1) : a[j] = b[j]
        /\ (k = Len(a) + 1 \/ Code[a[k]] < Code[b[k]])

\* The name a display form starts with: what stands before the markup
DisplayName(h) ==
    SubSeq(h, 1, (CHOOSE k \in 1..Len(h) :
                     h[k] = SpanOpen /\ \A j \in 1..(k - 1) : h[j] # SpanOpen) - 1)

\* h is a name, the opening markup, a value and the closing markup
IsRendering(h) ==
    \E k \in 2..(Len(h) - 2) :
        /\ h[k] = SpanOpen
        /\ h[Len(h)] = SpanClose
        /\ \A j \in 1..(k - 1) : h[j] \in NameClass
        /\ \A j \in (k + 1)..(Len(h) - 1) : h[j] \in ValueClass

InList(h, list) == \E k \in 1..Len(list) : list[k] = h

\* The typed characters section 4.3 of the specification allows: the sigil,
\* letters, digits and the hyphen
IsLetter(c) == (Code[c] >= 65 /\ Code[c] <= 90) \/ (Code[c] >= 97 /\ Code[c] <= 122)

IsDigit(c) == Code[c] >= 48 /\ Code[c] <= 57

AllowedTyped == {c \in Alphabet : c = "@" \/ IsLetter(c) \/ IsDigit(c) \/ c = "-"}

\* The cursor has left the span that starts at the start position
OutsideSpan(cur, start) ==
    cur.line # start.line \/ (cur.line = start.line /\ cur.ch < start.ch)

\* ------------------------------------------------------------------------
\* Properties
\* ------------------------------------------------------------------------

\* C1: when the text typed since the start is made of name characters only,
\* an accepted getHints keeps exactly the declarations of the document whose
\* lower-cased name has the lower-cased typed text as a subsequence, each as
\* often as the document declares it, and no other.
C1_SubsequenceFilter ==
    (Accepted /\ NameCharsOnly(writtenSinceStart)) =>
        /\ SameBag(hints, Names(Having(doc, writtenSinceStart)))
        /\ SameBag(hintsHTML, Renderings(Having(doc, writtenSinceStart)))

\* C1 witness: two characters were typed, a declaration whose name holds them
\* apart from each other is kept and another declaration is left out.
C1_Witness ==
    /\ Accepted
    /\ NameCharsOnly(writtenSinceStart)
    /\ Len(writtenSinceStart) = 2
    /\ Len(hints) < Len(getAll(doc))
    /\ \E k \in 1..Len(hints) :
          /\ Len(hints[k]) > 2
          /\ toLowerCase(hints[k])[1] = toLowerCase(writtenSinceStart)[1]
          /\ toLowerCase(hints[k])[2] # toLowerCase(writtenSinceStart)[2]

\* C2 as stated: when the typed text is the sigil followed by Q, the sigil is
\* ignored and exactly the declarations whose name has Q as a subsequence
\* are kept.
C2_SigilIgnored ==
    (/\ Accepted
     /\ Len(writtenSinceStart) >= 1
     /\ writtenSinceStart[1] = "@"
     /\ NameCharsOnly(Tail(writtenSinceStart))) =>
        SameBag(hintsHTML, Renderings(Having(doc, Tail(writtenSinceStart))))

\* C2 amended: when the typed text begins with the sigil, an accepted
\* getHints keeps no declaration at all: both lists are empty.
C2_SigilRejectsAll ==
    (Accepted /\ Len(writtenSinceStart) >= 1 /\ writtenSinceStart[1] = "@") =>
        (hints = <<>> /\ hintsHTML = <<>>)

\* C2 witness: the typed text is the sigil and a query that a declaration of
\* the document matches.
C2_Witness ==
    /\ Accepted
    /\ Len(writtenSinceStart) >= 2
    /\ writtenSinceStart[1] = "@"
    /\ NameCharsOnly(Tail(writtenSinceStart))
    /\ Having(doc, Tail(writtenSinceStart)) # <<>>
    /\ hints = <<>>

\* C3: insertHint with a display form of the list, also one that occurs in
\* the list more than once, issues exactly one replaceRange, from the start
\* position to the cursor, and the text it inserts is the name the display
\* form starts with, without the value.
C3_InsertsName ==
    [][(ret'.op = "insertHint" /\ InList(ret'.hint, hintsHTML)) =>
          /\ ret'.result = "undefined"
          /\ ret'.calls = <<[text |-> DisplayName(ret'.hint),
                             from |-> startPos, to |-> cursor]>>]_vars

\* C3 witness: a display form that stands twice in the list was chosen and
\* one replaceRange was issued.
C3_Witness ==
    /\ ret.op = "insertHint"
    /\ Len(ret.calls) = 1
    /\ Count(hintsHTML, ret.hint) >= 2

\* C4 as stated: insertHint with a display form that is not in the list
\* issues no replaceRange and raises no error.
C4_UnknownIsNoOp ==
    (ret.op = "insertHint" /\ editor = "editor" /\ ~InList(ret.hint, hintsHTML)) =>
        (ret.calls = <<>> /\ ret.result # "TypeError")

\* C5: with an allowed or absent typed character, getHints returns null if
\* and only if the cursor is on another line than the start position or on
\* its line at a smaller column (at the start position itself the query is
\* accepted); a rejected query extracts nothing and leaves both lists alone.
C5_RejectsOutsideSpan ==
    [][(/\ ret'.op = "getHints"
        /\ editor = "editor"
        /\ ret'.char \in AllowedTyped \cup {"_", NoChar}) =>
          /\ (ret'.result = "null") <=> OutsideSpan(cursor, startPos)
          /\ ret'.result \in {"null", "hints"}
          /\ ret'.result = "null" =>
                (~ret'.extracted /\ UNCHANGED <<hints, hintsHTML, writtenSinceStart>>)]_vars

\* C5 witness: a query at the start position itself was accepted.
C5_Witness ==
    /\ Accepted
    /\ ret.char \in AllowedTyped \cup {NoChar}
    /\ cursor = startPos

\* C6 as stated: getHints returns null without extracting whenever the typed
\* character is none of the sigil, a letter, a digit or the hyphen.
C6_RejectsOtherChars ==
    (ret.op = "getHints" /\ ret.char # NoChar /\ ret.char \notin AllowedTyped) =>
        (ret.result = "null" /\ ~ret.extracted)

\* C6 amended: getHints returns null, extracts nothing and leaves the lists
\* and the typed text alone whenever the typed character is none of the
\* sigil, a letter, a digit, the hyphen or the underscore, wherever the
\* cursor is.
C6_RejectsNonNameChars ==
    [][(/\ ret'.op = "getHints"
        /\ ret'.char # NoChar
        /\ ret'.char \notin AllowedTyped \cup {"_"}) =>
          /\ ret'.result = "null"
          /\ ~ret'.extracted
          /\ UNCHANGED <<hints, hintsHTML, writtenSinceStart>>]_vars

\* C6 witness: "!" was typed with the cursor inside the span and the query
\* was rejected.
C6_Witness ==
    /\ ret.op = "getHints"
    /\ ret.char = "!"
    /\ ret.result = "null"
    /\ editor = "editor"
    /\ ~OutsideSpan(cursor, startPos)

\* C7 as stated: hasHints returns true only for the sigil, and when it
\* returns false it changes nothing: start position, typed text and both
\* lists are as before the call.
C7_NoEffectOnFalse ==
    [][ret'.op = "hasHints" =>
          /\ ret'.result = "true" => ret'.char = "@"
          /\ ret'.result = "false" =>
                UNCHANGED <<startPos, writtenSinceStart, hints, hintsHTML>>]_vars

\* C8: after an accepted getHints the list is the kept declarations in
\* ascending order of their lower-cased names, and declarations whose
\* lower-cased names are equal stand in document order.
C8_SortedStable ==
    Accepted =>
        LET kept == filterHints(getAll(doc), writtenSinceStart)
            n    == Len(kept)
            key(k) == toLowerCase(kept[k].name)
        IN  /\ Len(hints) = n
            /\ Len(hintsHTML) = n
            /\ \E pi \in [1..n -> 1..n] :
                  /\ \A i, j \in 1..n : i < j =>
                        \/ LexLess(key(pi[i]), key(pi[j]))
                        \/ (key(pi[i]) = key(pi[j]) /\ pi[i] < pi[j])
                  /\ \A i \in 1..n :
                        /\ hints[i] = kept[pi[i]].name
                        /\ hintsHTML[i] = renderHTML(kept[pi[i]])

\* C8 witness: two declarations whose names differ only in case are both in
\* the list, told apart by their display forms.
C8_Witness ==
    /\ Accepted
    /\ \E i, j \in 1..Len(hints) :
          /\ i < j
          /\ hints[i] # hints[j]
          /\ toLowerCase(hints[i]) = toLowerCase(hints[j])

\* C9: in every state the two lists have the same length and each display
\* form is the rendering of a declaration with the name at the same index.
C9_Aligned ==
    /\ Len(hints) = Len(hintsHTML)
    /\ \A k \in 1..Len(hintsHTML) :
          /\ IsRendering(hintsHTML[k])
          /\ DisplayName(hintsHTML[k]) = hints[k]

\* C9 witness: the lists hold two different names, sorted against the order
\* of the document, after an insertion.
C9_Witness ==
    /\ ret.op = "insertHint"
    /\ Len(hints) = 2
    /\ hints[1] # hints[2]
    /\ inserts = 1

\* C10 as stated: once a session has ended, by a rejected getHints or by an
\* insertion, both lists and the typed text are empty again.
C10_ResetAtSessionEnd ==
    (\/ ret.op = "getHints" /\ ret.result = "null"
     \/ ret.op = "insertHint" /\ ret.result = "undefined") =>
        (hints = <<>> /\ hintsHTML = <<>> /\ writtenSinceStart = <<>>)

====
